---------------------------- MODULE Spec2Model ----------------------------
(***************************************************************************)
(* Model of steamily_app.py: the ATTOM sales/loan history viewer.          *)
(*                                                                         *)
(* Two parts of the script are modelled:                                   *)
(*   - the transform pipeline harvest_records -> make_dataframe ->         *)
(*     make_focus_loans_table, run on one parsed JSON document;            *)
(*   - the password gate check_password, run once per script rerun, with   *)
(*     its on_change callback password_entered.                            *)
(*                                                                         *)
(* JSON values are tagged records.  A Python dict is the sequence of its   *)
(* items in insertion order (the order .values() iterates in).             *)
(***************************************************************************)
EXTENDS Integers, Sequences, FiniteSets, TLC

VARIABLES
    doc,        \* data: the parsed JSON document handed to harvest_records
    pc,         \* position in the pipeline: start, harvested, table, done
    found,      \* records: the result of harvest_records(data)
    rows,       \* make_dataframe's rows at line 182: the normalized records
    df,         \* the result of make_dataframe(records)
    view,       \* focus_preview: the result of make_focus_loans_table(df)
    error,      \* whether lines 275-280 caught an exception from the transform
    env_pwd,    \* os.getenv("APP_PASSWORD")
    secret_pwd, \* st.secrets.get("app_password")
    ss,         \* st.session_state: a function from the keys present to values
    widget,     \* whether the last script run rendered the password input
    access,     \* what check_password() returned in the last script run
    fetched,    \* whether a script run has called fetch_attom
    submitted   \* history: the passwords submitted so far, oldest first

pipe_vars == <<doc, pc, found, rows, df, view, error>>
gate_vars == <<env_pwd, secret_pwd, ss, widget, access, fetched, submitted>>
vars == <<doc, pc, found, rows, df, view, error,
          env_pwd, secret_pwd, ss, widget, access, fetched, submitted>>

(***************************************************************************)
(* Bounds of the model.                                                    *)
(***************************************************************************)
MaxWrap == 3
MaxRows == 3
MaxSubmits == 3

(***************************************************************************)
(* JSON values and table cells.                                            *)
(***************************************************************************)
Null == [t |-> "null"]
Str(s) == [t |-> "str", s |-> s]
Num(n) == [t |-> "num", n |-> n]
Arr(items) == [t |-> "arr", items |-> items]
Obj(kv) == [t |-> "obj", kv |-> kv]
KV(k, v) == [k |-> k, v |-> v]

\* A missing cell of a DataFrame (NaN, NaT, <NA>) and a parsed date cell.
NA == [t |-> "na"]
Date(n) == [t |-> "date", n |-> n]

\* Values of st.session_state: a key that is not set, and a bool.
Absent == [t |-> "absent"]
Bool(b) == [t |-> "bool", b |-> b]

\* dict operations: d.keys(), c in d, d[c], d.values()
Keys(d) == {d.kv[i].k : i \in 1..Len(d.kv)}
Has(d, c) == c \in Keys(d)
Get(d, c) == d.kv[CHOOSE i \in 1..Len(d.kv) : d.kv[i].k = c].v
Values(d) == [i \in 1..Len(d.kv) |-> d.kv[i].v]

(***************************************************************************)
(* Key vocabularies.                                                       *)
(***************************************************************************)
LOAN_KEYS ==
    {"lender", "lender1", "lender2", "lenderName", "lenderName1", "lenderName2",
     "loanAmount", "amountLoan", "loanAmt", "loanType", "loanToValue", "lienType",
     "interestRate", "loanTerm", "loanDueDate", "recordingDate", "documentDate",
     "docNumber", "loanTypeCode", "lenderLastName", "beneficiary", "date", "term"}

SALE_KEYS ==
    {"saleAmount", "salePrice", "price", "saleAmt",
     "deedType", "transferTax", "buyerName", "sellerName", "saleTransDate",
     "saleRecDate"}

DATE_KEYS ==
    {"documentDate", "recordingDate", "saleDate", "saleTransDate", "saleRecDate",
     "contractDate", "date"}

(***************************************************************************)
(* _looks_like_record and harvest_records.                                 *)
(***************************************************************************)
\* A mutant of _looks_like_record: the sale vocabulary is forgotten.
looks_like_loan_record(d) == Keys(d) \cap LOAN_KEYS # {}

_looks_like_record(d) == Keys(d) \cap (LOAN_KEYS \cup SALE_KEYS) # {}

RECURSIVE harvest_records(_)
RECURSIVE harvest_each(_)

\* found.extend(harvest_records(v)) for every v of a sequence, in order
harvest_each(vs) ==
    IF vs = <<>> THEN <<>>
    ELSE harvest_records(Head(vs)) \o harvest_each(Tail(vs))

harvest_records(obj) ==
    IF obj.t = "obj"
    THEN (IF _looks_like_record(obj) THEN <<obj>> ELSE <<>>)
         \o harvest_each(Values(obj))
    ELSE IF obj.t = "arr"
    THEN harvest_each(obj.items)
    ELSE <<>>

(***************************************************************************)
(* String functions, tabulated on the strings the model uses.              *)
(***************************************************************************)
\* dateparser.parse(v).date() as the number yyyymmdd; 0 when parse raises
ParseDate(s) ==
    CASE s = "2019-07-01" -> 20190701
      [] s = "07/01/2019" -> 20190701
      [] s = "2020-03-03" -> 20200303
      [] s = "03/03/2020" -> 20200303
      [] s = "March 3, 2020" -> 20200303
      [] s = "2021-01-05" -> 20210105
      [] s = "2018-02-02" -> 20180202
      [] OTHER -> 0

\* date.isoformat()
IsoFormat(n) ==
    CASE n = 20190701 -> "2019-07-01"
      [] n = 20200303 -> "2020-03-03"
      [] n = 20210105 -> "2021-01-05"
      [] n = 20180202 -> "2018-02-02"
      [] n = 19700101 -> "1970-01-01"

\* str.strip()
Strip(s) == IF s \in {" ", "  "} THEN "" ELSE s

\* k.lower().endswith("date"), on the canonical column names
EndsWithDate(k) == k \in {"documentDate", "recordingDate", "saleDate"}

(***************************************************************************)
(* _coerce_date and _normalize_row.                                        *)
(***************************************************************************)
_coerce_date(v) ==
    IF v.t # "str" THEN v
    ELSE IF ParseDate(v.s) # 0 THEN Str(IsoFormat(ParseDate(v.s)))
    ELSE v

colmap == <<
    [std_col |-> "documentDate", candidates |-> <<"documentDate", "docDate", "date">>],
    [std_col |-> "recordingDate", candidates |-> <<"recordingDate", "saleRecDate">>],
    [std_col |-> "recordType", candidates |-> <<"recordType", "doctype", "docType", "type">>],
    [std_col |-> "salePrice", candidates |-> <<"saleAmount", "salePrice", "price", "saleAmt">>],
    [std_col |-> "deedType", candidates |-> <<"deedType">>],
    [std_col |-> "loanAmount", candidates |-> <<"loanAmount", "amountLoan", "loanAmt", "amount">>],
    [std_col |-> "loanType", candidates |-> <<"loanType", "loanTypeCode">>],
    [std_col |-> "lienType", candidates |-> <<"lienType">>],
    [std_col |-> "interestRate", candidates |-> <<"interestRate", "rate">>],
    [std_col |-> "loanTerm", candidates |-> <<"loanTerm", "term">>],
    [std_col |-> "loanToValue", candidates |-> <<"loanToValue", "ltv">>],
    [std_col |-> "docNumber", candidates |-> <<"docNumber", "documentNumber", "trustDeedDocumentNumber">>],
    [std_col |-> "lenderName", candidates |-> <<"lender", "lender1", "lenderName", "lenderName1", "lenderLastName", "beneficiary">>],
    [std_col |-> "buyerName", candidates |-> <<"buyerName">>],
    [std_col |-> "sellerName", candidates |-> <<"sellerName">>],
    [std_col |-> "saleDate", candidates |-> <<"saleDate", "saleTransDate", "contractDate", "date">>] >>

\* A mutant of first_candidate: takes the first alias present, whatever it holds.
first_candidate_present(d, candidates) ==
    LET hits == {i \in 1..Len(candidates) : Has(d, candidates[i])}
    IN  IF hits = {} THEN <<>>
        ELSE <<Get(d, candidates[CHOOSE i \in hits : \A j \in hits : i <= j])>>

\* The inner loop of lines 158-161: <<d[c]>> for the first c that passes the
\* test, <<>> when the loop ends without a break.
RECURSIVE first_candidate(_, _)
first_candidate(d, candidates) ==
    IF candidates = <<>> THEN <<>>
    ELSE IF Has(d, Head(candidates)) /\ Get(d, Head(candidates)) \notin {Null, Str("")}
    THEN <<Get(d, Head(candidates))>>
    ELSE first_candidate(d, Tail(candidates))

_normalize_row(d) ==
    LET hit(i) == first_candidate(d, colmap[i].candidates)
        idx(k) == CHOOSE i \in 1..Len(colmap) : colmap[i].std_col = k
        out == [k \in {colmap[i].std_col : i \in {j \in 1..Len(colmap) : hit(j) # <<>>}}
                  |-> hit(idx(k))[1]]
    IN  [k \in DOMAIN out |->
            IF k \in DATE_KEYS \/ EndsWithDate(k) THEN _coerce_date(out[k]) ELSE out[k]]

(***************************************************************************)
(* make_dataframe.  A DataFrame is its set of columns and the sequence of  *)
(* its rows; a row is its index label and a function from the columns to   *)
(* cells.                                                                  *)
(***************************************************************************)
EmptyDF == [cols |-> {}, rows |-> <<>>]

\* A mutant of str_strip: bool(str(v)), without the strip.
str_unstripped(v) == IF v.t = "str" THEN v.s # "" ELSE TRUE

\* bool(str(v).strip())
str_strip(v) == IF v.t = "str" THEN Strip(v.s) # "" ELSE TRUE

\* pd.to_datetime(..., errors="coerce") on one cell
to_datetime(c) ==
    IF c.t = "date" THEN c
    ELSE IF c.t = "str" THEN (IF ParseDate(c.s) # 0 THEN Date(ParseDate(c.s)) ELSE NA)
    ELSE IF c.t = "num" THEN Date(19700101)
    ELSE NA

\* rows = [_normalize_row(r) for r in records]
normalize_rows(records) == [i \in 1..Len(records) |-> _normalize_row(records[i])]

make_dataframe(records) ==
    LET normalized == normalize_rows(records)
        keep(r) == \E k \in DOMAIN r : str_strip(r[k])
        kept_rows == SelectSeq(normalized, keep)
        cols == UNION {DOMAIN kept_rows[i] : i \in 1..Len(kept_rows)}
        cell(r, c) ==
            LET raw == IF c \in DOMAIN r THEN r[c] ELSE NA
            IN  IF c \in {"documentDate", "recordingDate", "saleDate"}
                THEN to_datetime(raw) ELSE raw
    IN  IF kept_rows = <<>> THEN EmptyDF
        ELSE [cols |-> cols,
              rows |-> [i \in 1..Len(kept_rows) |->
                          [idx |-> i - 1, cells |-> [c \in cols |-> cell(kept_rows[i], c)]]]]

(***************************************************************************)
(* make_focus_loans_table.                                                 *)
(***************************************************************************)
notna(c) == c.t # "na"

\* A mutant of best_date_column: documentDate is preferred to saleDate.
best_date_column_doc_first(cols) ==
    IF "documentDate" \in cols THEN "documentDate"
    ELSE IF "saleDate" \in cols THEN "saleDate"
    ELSE IF "recordingDate" \in cols THEN "recordingDate"
    ELSE ""

\* next((c for c in ("saleDate", "documentDate", "recordingDate")
\*       if c in df.columns), None); "" stands for None
best_date_column(cols) ==
    IF "saleDate" \in cols THEN "saleDate"
    ELSE IF "documentDate" \in cols THEN "documentDate"
    ELSE IF "recordingDate" \in cols THEN "recordingDate"
    ELSE ""

\* Series.replace({"CONV": "Conventional", "FHA": "FHA", "VA": "VA", "HELOC": "HELOC"})
replace_loan_type(c) == IF c = Str("CONV") THEN Str("Conventional") ELSE c

\* Series.dt.year
dt_year(c) == IF c.t = "date" THEN Num(c.n \div 10000) ELSE NA

\* Series.dt.date.astype("string")
dt_date_string(c) == IF c.t = "date" THEN Str(IsoFormat(c.n)) ELSE NA

\* A mutant of sort_values: ascending=True.
RECURSIVE insert_asc(_, _)
insert_asc(r, s) ==
    IF s = <<>> THEN <<r>>
    ELSE IF Head(s).cells["Purchase Date"].n <= r.cells["Purchase Date"].n
    THEN <<Head(s)>> \o insert_asc(r, Tail(s))
    ELSE <<r>> \o s

RECURSIVE sort_asc(_)
sort_asc(s) ==
    IF s = <<>> THEN <<>>
    ELSE insert_asc(s[Len(s)], sort_asc(SubSeq(s, 1, Len(s) - 1)))

sort_values_ascending(rs) ==
    LET dated(r) == notna(r.cells["Purchase Date"])
        undated(r) == ~notna(r.cells["Purchase Date"])
    IN  sort_asc(SelectSeq(rs, dated)) \o SelectSeq(rs, undated)

\* view.sort_values(by=["Purchase Date"], ascending=False): the rows with a
\* date in descending order, then the rows without one (na_position="last",
\* the default).  Rows of equal date keep their order here; pandas leaves
\* their order open, and no property below depends on it.
RECURSIVE insert_desc(_, _)
insert_desc(r, s) ==
    IF s = <<>> THEN <<r>>
    ELSE IF Head(s).cells["Purchase Date"].n >= r.cells["Purchase Date"].n
    THEN <<Head(s)>> \o insert_desc(r, Tail(s))
    ELSE <<r>> \o s

RECURSIVE sort_desc(_)
sort_desc(s) ==
    IF s = <<>> THEN <<>>
    ELSE insert_desc(s[Len(s)], sort_desc(SubSeq(s, 1, Len(s) - 1)))

sort_values(rs) ==
    LET dated(r) == notna(r.cells["Purchase Date"])
        undated(r) == ~notna(r.cells["Purchase Date"])
    IN  sort_desc(SelectSeq(rs, dated)) \o SelectSeq(rs, undated)

\* A mutant of retained: with both columns, both values must be non-null.
retained_all(r, vcols) ==
    (("Loan Type" \in vcols) => r.cells["Loan Type"].t # "na")
    /\ (("Lender Name" \in vcols) => r.cells["Lender Name"].t # "na")

\* Lines 205-210: the rows the loan type / lender filter keeps.
retained(r, vcols) ==
    IF "Loan Type" \in vcols /\ "Lender Name" \in vcols
    THEN notna(r.cells["Loan Type"]) \/ notna(r.cells["Lender Name"])
    ELSE IF "Loan Type" \in vcols THEN notna(r.cells["Loan Type"])
    ELSE IF "Lender Name" \in vcols THEN notna(r.cells["Lender Name"])
    ELSE TRUE

make_focus_loans_table(d) ==
    LET best_date == best_date_column(d.cols)
        vcols == {"Purchase Date"}
                 \cup (IF "loanType" \in d.cols THEN {"Loan Type"} ELSE {})
                 \cup (IF "lenderName" \in d.cols THEN {"Lender Name"} ELSE {})
        vrow(r) ==
            [idx |-> r.idx,
             cells |-> [c \in vcols |->
                 IF c = "Purchase Date" THEN to_datetime(r.cells[best_date])
                 ELSE IF c = "Loan Type" THEN replace_loan_type(r.cells["loanType"])
                 ELSE r.cells["lenderName"]]]
        keep(r) == retained(r, vcols)
        filtered == SelectSeq([i \in 1..Len(d.rows) |-> vrow(d.rows[i])], keep)
        with_year(r) ==
            [idx |-> r.idx,
             cells |-> [c \in vcols \cup {"Year"} |->
                 IF c = "Year" THEN dt_year(r.cells["Purchase Date"]) ELSE r.cells[c]]]
        sorted == sort_values([i \in 1..Len(filtered) |-> with_year(filtered[i])])
        as_string(r) ==
            [idx |-> r.idx,
             cells |-> [c \in vcols \cup {"Year"} |->
                 IF c = "Purchase Date" THEN dt_date_string(r.cells[c]) ELSE r.cells[c]]]
    IN  IF d.rows = <<>> \/ d.cols = {} THEN d
        ELSE IF best_date = ""
        THEN [cols |-> {"Purchase Date", "Year", "Loan Type", "Lender Name"}, rows |-> <<>>]
        ELSE IF filtered = <<>> THEN [cols |-> vcols, rows |-> <<>>]
        ELSE [cols |-> vcols \cup {"Year"},
              rows |-> [i \in 1..Len(sorted) |-> as_string(sorted[i])]]

(***************************************************************************)
(* The documents the pipeline is run on.                                   *)
(***************************************************************************)
\* Records that exercise the alias lists: each key absent or with one of a
\* few values, the keys in either order.
Opt(k, vals) == {<<>>} \cup {<<KV(k, v)>> : v \in vals}

Reverse(s) == [i \in 1..Len(s) |-> s[Len(s) + 1 - i]]

AliasItems ==
    {a \o b \o c \o d \o e \o f :
        a \in Opt("lender", {Null, Str(""), Str(" "), Str("Acme"),
                             Obj(<<KV("name", Str("Acme"))>>)}),
        b \in Opt("lenderName", {Str(""), Str("First Bank")}),
        c \in Opt("loanType", {Null, Str("X99")}),
        d \in Opt("loanTypeCode", {Str("CONV")}),
        e \in Opt("date", {Str("March 3, 2020")}),
        f \in Opt("saleTransDate", {Str(""), Str("07/01/2019"), Str("not a date")})}

AliasDocs == {Obj(kv) : kv \in AliasItems} \cup {Obj(Reverse(kv)) : kv \in AliasItems}

\* Arrays of up to MaxRows records: tables of several rows.
TableRecs ==
    {Obj(<<KV("saleTransDate", Str("2019-07-01")), KV("loanTypeCode", Str("CONV")),
           KV("lender1", Str("Acme"))>>),
     Obj(<<KV("saleTransDate", Str("2020-03-03")), KV("price", Num(100))>>),
     Obj(<<KV("documentDate", Str("2021-01-05")), KV("loanType", Str("FHA"))>>),
     Obj(<<KV("lender", Str("Acme"))>>),
     Obj(<<KV("saleTransDate", Str("not a date")), KV("loanType", Str("VA"))>>),
     Obj(<<KV("recordingDate", Str("2018-02-02")), KV("price", Num(5))>>),
     Obj(<<KV("saleTransDate", Str("2020-03-03")), KV("lender", Str("First Bank"))>>),
     Obj(<<KV("loanAmount", Num(1000))>>),
     Obj(<<KV("docNumber", Str(""))>>),
     Obj(<<KV("lender", Str(" "))>>)}

TableDocs == UNION {{Arr(s) : s \in [1..n -> TableRecs]} : n \in 1..MaxRows}

\* Nested documents: a leaf wrapped up to MaxWrap times in objects and arrays.
RecA == Obj(<<KV("lender1", Str("Acme")), KV("saleTransDate", Str("2019-07-01"))>>)
RecB == Obj(<<KV("price", Num(100)), KV("saleTransDate", Str("2020-03-03"))>>)

Leaves ==
    {Null, Str("Acme"), Num(1), Arr(<<>>), Obj(<<>>), RecA, RecB,
     Obj(<<KV("status", Str("ok"))>>)}

Wrap(x) ==
    {Obj(<<KV("property", x)>>),
     Obj(<<KV("loanType", Str("FHA")), KV("lender", x)>>),
     Arr(<<x, RecA>>),
     Arr(<<RecB, x>>),
     Obj(<<KV("salehistory", x), KV("other", x)>>)}

RECURSIVE TreeDocs(_)
TreeDocs(n) ==
    IF n = 0 THEN Leaves
    ELSE LET prev == TreeDocs(n - 1) IN prev \cup UNION {Wrap(x) : x \in prev}

Docs == AliasDocs \cup TableDocs \cup TreeDocs(MaxWrap)

(***************************************************************************)
(* The pipeline of lines 274-282.                                          *)
(***************************************************************************)
InitPipe ==
    /\ doc \in Docs
    /\ pc = "start"
    /\ found = <<>>
    /\ rows = <<>>
    /\ df = EmptyDF
    /\ view = EmptyDF
    /\ error = "none"

\* The session the pipeline runs in: the password was accepted and the
\* address form was submitted.
GateOpen ==
    /\ env_pwd = Str("a")
    /\ secret_pwd = Null
    /\ ss = [password_correct |-> Bool(TRUE), password |-> Absent]
    /\ widget = FALSE
    /\ access = TRUE
    /\ fetched = TRUE
    /\ submitted = <<Str("a")>>

\* records = harvest_records(data): no statement of it raises
Harvest ==
    /\ pc = "start"
    /\ found' = harvest_records(doc)
    /\ error' = "none"
    /\ pc' = "harvested"
    /\ UNCHANGED <<doc, rows, df, view>>
    /\ UNCHANGED gate_vars

\* df = make_dataframe(records)
MakeDataframe ==
    /\ pc = "harvested"
    /\ rows' = normalize_rows(found)
    /\ df' = make_dataframe(found)
    /\ pc' = "table"
    /\ UNCHANGED <<doc, found, view, error>>
    /\ UNCHANGED gate_vars

\* focus_preview = make_focus_loans_table(df)
MakeFocus ==
    /\ pc = "table"
    /\ view' = make_focus_loans_table(df)
    /\ pc' = "done"
    /\ UNCHANGED <<doc, found, rows, df, error>>
    /\ UNCHANGED gate_vars

Init == InitPipe /\ GateOpen

Next == Harvest \/ MakeDataframe \/ MakeFocus

Spec == Init /\ [][Next]_vars

(***************************************************************************)
(* The password gate: get_app_password, check_password and its callback    *)
(* password_entered, and the script runs of one session.                   *)
(***************************************************************************)
\* "not pwd" is true of None and of the empty string
get_app_password == IF env_pwd \in {Null, Str("")} THEN secret_pwd ELSE env_pwd

\* A mutant of password_entered: grants access on any submission.
password_entered_any(s) == [s EXCEPT !.password_correct = Bool(TRUE), !.password = Absent]

\* The on_change callback, on the session state that holds the new value
\* of the input under "password".
password_entered(s) ==
    IF s.password = get_app_password
    THEN [s EXCEPT !.password_correct = Bool(TRUE), !.password = Absent]
    ELSE [s EXCEPT !.password_correct = Bool(FALSE)]

\* One call of check_password on session state s: the session state it
\* leaves, whether it rendered the input, and what it returned.  Rendering
\* the input sets its key to the default "" when the key is not set.
check_password(s) ==
    LET s1 == IF s.password_correct = Absent
              THEN [s EXCEPT !.password_correct = Bool(FALSE)] ELSE s
    IN  IF s1.password_correct # Bool(TRUE)
        THEN [ss |-> IF s1.password = Absent THEN [s1 EXCEPT !.password = Str("")] ELSE s1,
              widget |-> TRUE, ret |-> FALSE]
        ELSE [ss |-> s1, widget |-> FALSE, ret |-> TRUE]

Passwords == {Str(""), Str("a"), Str("b"), Str("x")}

PipeIdle ==
    /\ doc = Null
    /\ pc = "start"
    /\ found = <<>>
    /\ rows = <<>>
    /\ df = EmptyDF
    /\ view = EmptyDF
    /\ error = "none"

InitGate ==
    /\ PipeIdle
    /\ env_pwd \in {Null, Str(""), Str("a")}
    /\ secret_pwd \in {Null, Str(""), Str("b")}
    /\ ss = [password_correct |-> Absent, password |-> Absent]
    /\ widget = FALSE
    /\ access = FALSE
    /\ fetched = FALSE
    /\ submitted = <<>>

\* A script run that no widget of the script caused: the first load of the
\* page, or a rerun.
Rerun ==
    LET r == check_password(ss)
    IN  /\ ss' = r.ss
        /\ widget' = r.widget
        /\ access' = r.ret
        /\ UNCHANGED <<env_pwd, secret_pwd, fetched, submitted>>
        /\ UNCHANGED pipe_vars

\* The user changes the password input to p: the callback runs on the new
\* value, then the script reruns.
SubmitPassword ==
    \E p \in Passwords :
        /\ widget
        /\ p # ss.password
        /\ Len(submitted) < MaxSubmits
        /\ LET r == check_password(password_entered([ss EXCEPT !.password = p]))
           IN  /\ ss' = r.ss
               /\ widget' = r.widget
               /\ access' = r.ret
        /\ submitted' = Append(submitted, p)
        /\ UNCHANGED <<env_pwd, secret_pwd, fetched>>
        /\ UNCHANGED pipe_vars

\* The user submits the address form, which only a run that passed the gate
\* rendered: the script reruns and, past the gate again, calls fetch_attom
\* when the form's fields are valid.
SubmitForm ==
    /\ access
    /\ LET r == check_password(ss)
       IN  /\ ss' = r.ss
           /\ widget' = r.widget
           /\ access' = r.ret
           /\ \E valid \in BOOLEAN : fetched' = (fetched \/ (r.ret /\ valid))
    /\ UNCHANGED <<env_pwd, secret_pwd, submitted>>
    /\ UNCHANGED pipe_vars

NextGate == Rerun \/ SubmitPassword \/ SubmitForm

SpecGate == InitGate /\ [][NextGate]_vars

(***************************************************************************)
(* Properties of harvest_records.                                          *)
(***************************************************************************)
\* The positions of a document: a path is the sequence of child indices
\* from the root (the i-th value of an object, the i-th item of an array).
Children(v) == IF v.t = "obj" THEN Values(v) ELSE IF v.t = "arr" THEN v.items ELSE <<>>

RECURSIVE At(_, _)
At(v, p) == IF p = <<>> THEN v ELSE At(Children(v)[Head(p)], Tail(p))

RECURSIVE Paths(_)
Paths(v) ==
    {<<>>} \cup UNION {{<<i>> \o q : q \in Paths(Children(v)[i])} :
                        i \in 1..Len(Children(v))}

RecordLike(o) ==
    /\ o.t = "obj"
    /\ \E i \in 1..Len(o.kv) : o.kv[i].k \in LOAN_KEYS \/ o.kv[i].k \in SALE_KEYS

RecordPaths(D) == {p \in Paths(D) : RecordLike(At(D, p))}

\* p is met before q in a pre-order depth-first walk
PreorderBefore(p, q) ==
    /\ p # q
    /\ \/ Len(p) < Len(q) /\ SubSeq(q, 1, Len(p)) = p
       \/ \E i \in 1..Len(p) :
             /\ i <= Len(q)
             /\ SubSeq(p, 1, i - 1) = SubSeq(q, 1, i - 1)
             /\ p[i] < q[i]

PreorderRank(D, p) == 1 + Cardinality({q \in RecordPaths(D) : PreorderBefore(q, p)})

\* C1: harvest_records(D) is exactly the record-like objects of D: every
\* element returned is record-like, there is one element per position of D
\* that holds a record-like object (also a position inside another
\* record-like object), and the element at place n is the object at the
\* n-th such position in pre-order depth-first order.
C1_HarvestExact ==
    pc # "start" =>
        /\ \A i \in 1..Len(found) : RecordLike(found[i])
        /\ Len(found) = Cardinality(RecordPaths(doc))
        /\ \A p \in RecordPaths(doc) :
              /\ PreorderRank(doc, p) \in 1..Len(found)
              /\ found[PreorderRank(doc, p)] = At(doc, p)

\* A harvest that returned a record-like object lying three levels or more
\* inside another record-like object, and a sale-only record after it.
C1_Witness ==
    /\ pc = "harvested"
    /\ \E p, q \in RecordPaths(doc) :
          /\ Len(q) >= Len(p) + 3
          /\ SubSeq(q, 1, Len(p)) = p
          /\ found[PreorderRank(doc, q)] = At(doc, q)
    /\ \E i \in 1..Len(found) : Keys(found[i]) \cap LOAN_KEYS = {}
    /\ Len(found) >= 4

(***************************************************************************)
(* Properties of _normalize_row.                                           *)
(***************************************************************************)
\* Alias a is present in record d with a value that is neither null nor ""
Eligible(d, a) == Has(d, a) /\ Get(d, a) # Null /\ Get(d, a) # Str("")

CanonicalFields == {colmap[i].std_col : i \in 1..Len(colmap)}

\* Row out resolves the field of colmap[c] from record d to the first
\* eligible alias, its value passed through conv; without an eligible
\* alias the field is not in out.
FirstAliasWins(d, out, c, conv(_)) ==
    LET f == colmap[c].std_col
        cands == colmap[c].candidates
    IN  \/ \E j \in 1..Len(cands) :
              /\ Eligible(d, cands[j])
              /\ \A k \in 1..(j - 1) : ~Eligible(d, cands[k])
              /\ f \in DOMAIN out
              /\ out[f] = conv(Get(d, cands[j]))
        \/ /\ \A j \in 1..Len(cands) : ~Eligible(d, cands[j])
           /\ f \notin DOMAIN out

Unchanged(v) == v

\* A string that parses as a date becomes its ISO-8601 calendar date.
IsoIfDate(v) ==
    IF v.t = "str" /\ ParseDate(v.s) # 0 THEN Str(IsoFormat(ParseDate(v.s))) ELSE v

\* C2 as stated: every canonical field of every normalized record holds
\* the value of the first alias of its priority list that is present with
\* a value that is neither null nor the empty string, and a field without
\* such an alias is omitted.
C2_FirstAliasValue ==
    pc \in {"table", "done"} =>
        \A i \in 1..Len(found) :
            /\ DOMAIN rows[i] \subseteq CanonicalFields
            /\ \A c \in 1..Len(colmap) : FirstAliasWins(found[i], rows[i], c, Unchanged)

\* C2 amended: as C2, except that for the fields documentDate, recordingDate
\* and saleDate the value of the winning alias, when it is a string that
\* parses as a date, is replaced by the ISO-8601 string of that date.
C2_FirstAliasCoerced ==
    pc \in {"table", "done"} =>
        \A i \in 1..Len(found) :
            /\ DOMAIN rows[i] \subseteq CanonicalFields
            /\ \A c \in 1..Len(colmap) :
                  IF colmap[c].std_col \in {"documentDate", "recordingDate", "saleDate"}
                  THEN FirstAliasWins(found[i], rows[i], c, IsoIfDate)
                  ELSE FirstAliasWins(found[i], rows[i], c, Unchanged)

\* A record where the first lender alias holds "" and a later one a name
\* (the later one wins), where both loan type aliases hold a value (the
\* first wins), whose sale date is rewritten as an ISO date, and from which
\* a field with no alias is omitted.
C2_Witness ==
    /\ pc = "table"
    /\ \E i \in 1..Len(found) :
          /\ Has(found[i], "lender") /\ Get(found[i], "lender") = Str("")
          /\ Has(found[i], "lenderName")
          /\ "lenderName" \in DOMAIN rows[i]
          /\ rows[i]["lenderName"] = Str("First Bank")
          /\ Has(found[i], "loanType") /\ Has(found[i], "loanTypeCode")
          /\ "loanType" \in DOMAIN rows[i]
          /\ rows[i]["loanType"] = Str("X99")
          /\ Has(found[i], "saleTransDate")
          /\ Get(found[i], "saleTransDate") = Str("07/01/2019")
          /\ "saleDate" \in DOMAIN rows[i]
          /\ rows[i]["saleDate"] = Str("2019-07-01")
          /\ "salePrice" \notin DOMAIN rows[i]

(***************************************************************************)
(* Properties of make_dataframe.                                           *)
(***************************************************************************)
\* Value v is empty once converted to a string and trimmed
EmptyAsString(v) == v.t = "str" /\ Strip(v.s) = ""

\* The harvested records whose normalized form has a non-empty value
KeptRecords == {i \in 1..Len(found) : \E k \in DOMAIN rows[i] : ~EmptyAsString(rows[i][k])}

AllAliases == UNION {{colmap[c].candidates[j] : j \in 1..Len(colmap[c].candidates)} :
                       c \in 1..Len(colmap)}

\* Every aliased value of record d is null, "" or whitespace only
AllAliasedBlank(d) ==
    \A a \in AllAliases : Has(d, a) => (Get(d, a) = Null \/ EmptyAsString(Get(d, a)))

\* Table row r is the row of normalized record n
RowOf(r, n) ==
    \A c \in df.cols :
        r.cells[c] = IF c \notin DOMAIN n THEN NA
                     ELSE IF c \in {"documentDate", "recordingDate", "saleDate"}
                     THEN to_datetime(n[c]) ELSE n[c]

\* C7: the table has one row, in input order, for exactly the harvested
\* records whose normalized form has a value that is non-empty after
\* conversion to string and trimming; a record whose aliased values are all
\* null, "" or whitespace has no row; with no row left the table is empty.
C7_RowsKept ==
    pc \in {"table", "done"} =>
        /\ Len(df.rows) = Cardinality(KeptRecords)
        /\ \A i \in KeptRecords :
              RowOf(df.rows[Cardinality({j \in KeptRecords : j <= i})], rows[i])
        /\ \A i \in 1..Len(found) : AllAliasedBlank(found[i]) => i \notin KeptRecords
        /\ (KeptRecords = {} => df = EmptyDF)

\* A table built from three records of which one, holding only whitespace,
\* and one, holding only "", have no row, with a kept record after a dropped
\* one.
C7_Witness ==
    /\ pc = "table"
    /\ Len(df.rows) >= 1
    /\ \E i, j, k \in 1..Len(found) :
          /\ i < k
          /\ i \notin KeptRecords /\ j \notin KeptRecords /\ k \in KeptRecords
          /\ DOMAIN rows[i] # {} /\ DOMAIN rows[j] = {}

\* C5: every cell of the normalized table is a string, a number, a date or
\* null; no cell holds a nested object or array.
C5_ScalarCells ==
    pc \in {"table", "done"} =>
        \A i \in 1..Len(df.rows) : \A c \in df.cols :
            df.rows[i].cells[c].t \in {"str", "num", "date", "na"}

(***************************************************************************)
(* The depth guard the specification asks of harvest_records.              *)
(***************************************************************************)
RECURSIVE Depth(_)
Depth(v) ==
    LET ch == Children(v)
        ds == {Depth(ch[i]) : i \in 1..Len(ch)}
    IN  IF v.t \notin {"obj", "arr"} THEN 0
        ELSE IF ds = {} THEN 1
        ELSE 1 + CHOOSE m \in ds : \A n \in ds : n <= m

\* C6: harvest_records enforces a maximum nesting depth: for some bound,
\* here any bound up to MaxWrap, the harvest of a document nested deeper
\* than the bound ends in a depth-limit error, not in a result.
C6_DepthGuard ==
    \E limit \in 1..MaxWrap :
        (pc # "start" /\ Depth(doc) > limit) => error = "depth_limit"

(***************************************************************************)
(* Properties of make_focus_loans_table.                                   *)
(***************************************************************************)
\* The table row with index label i has a row in the focus view
InView(i) == \E j \in 1..Len(view.rows) : view.rows[j].idx = i

HasDateColumn == \E c \in {"saleDate", "documentDate", "recordingDate"} : c \in df.cols

\* With both loanType and lenderName columns a table row is in the view iff
\* one of the two values is non-null; with one of the columns, iff its value
\* in that column is non-null.
RetentionRule ==
    \A i \in 1..Len(df.rows) :
        LET r == df.rows[i]
        IN  /\ ("loanType" \in df.cols /\ "lenderName" \in df.cols) =>
                  (InView(r.idx) <=>
                      (r.cells["loanType"] # NA \/ r.cells["lenderName"] # NA))
            /\ ("loanType" \in df.cols /\ "lenderName" \notin df.cols) =>
                  (InView(r.idx) <=> r.cells["loanType"] # NA)
            /\ ("loanType" \notin df.cols /\ "lenderName" \in df.cols) =>
                  (InView(r.idx) <=> r.cells["lenderName"] # NA)

\* C3 as stated: the retention rule holds of every table.
C3_Retention == pc = "done" => RetentionRule

\* C3 amended: the retention rule holds of every table that has at least
\* one of the columns saleDate, documentDate, recordingDate (without any of
\* them the view has no rows, as C9 states).
C3_RetentionWithDate == (pc = "done" /\ HasDateColumn) => RetentionRule

\* A table with both columns and a date column, of which a row with only a
\* lender and a row with only a loan type are in the view and a row with
\* neither is not.
C3_Witness ==
    /\ pc = "done"
    /\ HasDateColumn
    /\ "loanType" \in df.cols /\ "lenderName" \in df.cols
    /\ \E i, j, k \in 1..Len(df.rows) :
          /\ df.rows[i].cells["loanType"] = NA /\ df.rows[i].cells["lenderName"] # NA
          /\ InView(df.rows[i].idx)
          /\ df.rows[j].cells["loanType"] # NA /\ df.rows[j].cells["lenderName"] = NA
          /\ InView(df.rows[j].idx)
          /\ df.rows[k].cells["loanType"] = NA /\ df.rows[k].cells["lenderName"] = NA
          /\ ~InView(df.rows[k].idx)

\* C4: the focus view of a table that has neither a loanType nor a
\* lenderName column has no rows.
C4_NoLoanColumnsEmpty ==
    (pc = "done" /\ "loanType" \notin df.cols /\ "lenderName" \notin df.cols) =>
        view.rows = <<>>

\* The date of a Purchase Date cell of the view (a string), 0 for null
PurchaseDate(r) ==
    IF r.cells["Purchase Date"] = NA THEN 0 ELSE ParseDate(r.cells["Purchase Date"].s)

\* C8: in a non-empty focus view, of two rows with a Purchase Date the one
\* with the later date comes first, every row without a Purchase Date comes
\* after every row with one, and a row without a Purchase Date has a null
\* Year.
C8_SortedDescending ==
    (pc = "done" /\ view.rows # <<>>) =>
        \A i, j \in 1..Len(view.rows) :
            LET a == view.rows[i]
                b == view.rows[j]
            IN  /\ (PurchaseDate(a) # 0 /\ PurchaseDate(b) # 0
                        /\ PurchaseDate(a) > PurchaseDate(b)) => i < j
                /\ (PurchaseDate(a) # 0 /\ PurchaseDate(b) = 0) => i < j
                /\ PurchaseDate(a) = 0 => a.cells["Year"] = NA

\* A view of three rows that the sort reordered: two rows with different
\* dates, the later one second in the table, and a row without a date that
\* was first in the table.
C8_Witness ==
    /\ pc = "done"
    /\ Len(view.rows) = 3
    /\ PurchaseDate(view.rows[1]) > PurchaseDate(view.rows[2])
    /\ PurchaseDate(view.rows[2]) > 0
    /\ view.rows[1].idx > view.rows[2].idx
    /\ PurchaseDate(view.rows[3]) = 0
    /\ view.rows[3].idx = 0

\* The first of saleDate, documentDate, recordingDate that is a column of
\* the table is c
IsBestDate(c) ==
    LET order == <<"saleDate", "documentDate", "recordingDate">>
    IN  \E n \in 1..3 :
           /\ order[n] = c
           /\ c \in df.cols
           /\ \A m \in 1..(n - 1) : order[m] \notin df.cols

\* C9: every row of the view takes its Purchase Date from the one best
\* date column of the table: the date of that cell of its table row, null
\* when that cell is null whatever the other date columns hold; a table
\* with none of the three columns gives a view with no rows.
C9_BestDateColumn ==
    pc = "done" =>
        /\ ~HasDateColumn => view.rows = <<>>
        /\ \A c \in df.cols : IsBestDate(c) =>
              \A j \in 1..Len(view.rows) :
                  LET src == df.rows[view.rows[j].idx + 1].cells[c]
                  IN  IF src = NA THEN view.rows[j].cells["Purchase Date"] = NA
                      ELSE /\ view.rows[j].cells["Purchase Date"] # NA
                           /\ PurchaseDate(view.rows[j]) = src.n

\* A view with a row whose Purchase Date is null although its table row
\* has a documentDate, the table having a saleDate column, beside a row
\* with a Purchase Date.
C9_Witness ==
    /\ pc = "done"
    /\ {"saleDate", "documentDate"} \subseteq df.cols
    /\ \E j, k \in 1..Len(view.rows) :
          /\ view.rows[j].cells["Purchase Date"] = NA
          /\ df.rows[view.rows[j].idx + 1].cells["documentDate"] # NA
          /\ view.rows[k].cells["Purchase Date"] # NA

(***************************************************************************)
(* The password gate.                                                      *)
(***************************************************************************)
\* C10: check_password returns True, and fetch_attom is reached, only with
\* session_state["password_correct"] true; the flag is true only if a
\* password submitted earlier equals the configured one; with no password
\* configured no submission grants access.
C10_GateSafe ==
    /\ access => ss.password_correct = Bool(TRUE)
    /\ fetched => ss.password_correct = Bool(TRUE)
    /\ ss.password_correct = Bool(TRUE) =>
          \E i \in 1..Len(submitted) :
              submitted[i] = (IF env_pwd # Null /\ env_pwd # Str("") THEN env_pwd
                              ELSE secret_pwd)
    /\ (env_pwd \in {Null, Str("")} /\ secret_pwd = Null) =>
          (~access /\ ~fetched /\ ss.password_correct # Bool(TRUE))

\* Access granted and the fetch reached after a wrong password and then
\* the right one.
C10_Witness ==
    /\ access /\ fetched
    /\ Len(submitted) >= 2
    /\ submitted[1] # get_app_password
    /\ submitted[Len(submitted)] = get_app_password

=============================================================================
